---- MODULE Spec2Model ----
(***************************************************************************)
(* Model of the GoBingo document-intake bot: TelegramController            *)
(* (src/controller/controller.py), the extractors under src/model/ and     *)
(* validate_image (src/model.py).                                          *)
(*                                                                         *)
(* A Python string is a non-empty sequence of lines (what split('\n')      *)
(* gives); a line is a sequence of tokens (words, labels, ":" and " ").    *)
(* A dict is a function; a path is a tuple.                                *)
(***************************************************************************)
EXTENDS Integers, Sequences, FiniteSets, TLC

VARIABLES
  state,           \* conversation state of each user (END = no conversation)
  extracted_data,  \* TelegramController.extracted_data (one dict per controller)
  user_data,       \* context.user_data of each user
  tempFiles,       \* paths existing under temp_documents/
  permFiles,       \* paths existing under image_documents/<doc_type>/
  clock,           \* wall clock in seconds (datetime.now())
  owner,           \* history: the user whose step stored each key of extracted_data
  last,            \* history: what the most recent handler invocation did
  threads,         \* the process_document calls in progress, by thread
  waiting,         \* the handler that is waiting for a process_document call
  runtime,         \* history: load_model calls made and models deleted by cleanup
  singleton,       \* the class attributes of ModelSingleton and what it returned
  call,            \* the most recent call of a pure function: input and result
  bot              \* the conversations, files and running handler of src/bot.py

sideVars == <<call, bot>>
convVars == <<state, extracted_data, user_data, tempFiles, permFiles, clock,
              owner, last, call, bot>>
rtVars == <<threads, waiting, runtime, singleton>>
vars == <<state, extracted_data, user_data, tempFiles, permFiles, clock,
          owner, last, threads, waiting, runtime, singleton, call, bot>>

----------------------------------------------------------------------------
(* Bounds of the model                                                     *)

Users == {"u1", "u2"}
MaxClock == 1
MaxValFails == 2
MaxSubs == 2
MaxThreads == 2
MaxLoads == 2
MaxGets == 3
MaxLines == 3

----------------------------------------------------------------------------
(* Program constants                                                       *)

STATE_UPLOAD_ID == 0
STATE_UPLOAD_LICENSE == 1
STATE_UPLOAD_LOG == 2
STATE_REFERRER_NAME == 3
STATE_REFERRER_CONTACT == 4
STATE_REFERRER_DEALERSHIP == 5
END == -1
MAX_RETRIES == 3
BOT_MAX_RETRIES == 3
RETRY_DELAY == 2
MinDim == 100
MinBytes == 1024

----------------------------------------------------------------------------
(* Strings                                                                 *)

SP == " "
COLON == ":"
MARKER == "Only output the extracted information"
NO_DATA == "No data found"
NOT_FOUND == "Not found"

EmptyStr == << <<>> >>
Lit(tok) == << <<tok>> >>

RECURSIVE LStrip(_)
LStrip(l) == IF l # <<>> /\ Head(l) = SP THEN LStrip(Tail(l)) ELSE l

RECURSIVE RStrip(_)
RStrip(l) ==
  IF l # <<>> /\ l[Len(l)] = SP THEN RStrip(SubSeq(l, 1, Len(l) - 1)) ELSE l

\* str.strip() of one line
Strip(l) == RStrip(LStrip(l))

\* tok in line
HasTok(l, tok) == \E i \in 1..Len(l) : l[i] = tok

\* substring test on a whole string
StrHas(s, tok) == \E i \in 1..Len(s) : HasTok(s[i], tok)

\* index of the first ":" of a line (0 when absent)
FirstColon(l) ==
  IF HasTok(l, COLON)
  THEN CHOOSE i \in 1..Len(l) : l[i] = COLON /\ \A j \in 1..(i - 1) : l[j] # COLON
  ELSE 0

\* line.split(':', 1)[0] and [1]
BeforeColon(l) == SubSeq(l, 1, FirstColon(l) - 1)
AfterColon(l) == SubSeq(l, FirstColon(l) + 1, Len(l))

\* '\n'.join(lines): the empty list joins to the empty string
Join(lines) == IF lines = <<>> THEN EmptyStr ELSE lines

\* truthiness of a string
Truthy(s) == s # EmptyStr

----------------------------------------------------------------------------
(* Dicts                                                                   *)

EmptyDict == [k \in {} |-> k]
DictSet(d, k, v) == [x \in (DOMAIN d) \cup {k} |-> IF x = k THEN v ELSE d[x]]
DictGet(d, k, dflt) == IF k \in DOMAIN d THEN d[k] ELSE dflt
DictUpdate(a, b) ==
  [x \in (DOMAIN a) \cup (DOMAIN b) |-> IF x \in DOMAIN b THEN b[x] ELSE a[x]]

\* the controller's dict comprehension over extracted_text.split('\n'):
\* every line with a ":" gives key and value, a later line replaces an earlier
RECURSIVE ParseFrom(_, _, _)
ParseFrom(s, i, d) ==
  IF i > Len(s) THEN d
  ELSE IF HasTok(s[i], COLON)
       THEN ParseFrom(s, i + 1,
                      DictSet(d, Strip(BeforeColon(s[i])), Strip(AfterColon(s[i]))))
       ELSE ParseFrom(s, i + 1, d)

\* variant: key and value are kept as split, without strip()
RECURSIVE ParseRawFrom(_, _, _)
ParseRawFrom(s, i, d) ==
  IF i > Len(s) THEN d
  ELSE IF HasTok(s[i], COLON)
       THEN ParseRawFrom(s, i + 1, DictSet(d, BeforeColon(s[i]), AfterColon(s[i])))
       ELSE ParseRawFrom(s, i + 1, d)

ParseLines_unstripped(s) == ParseRawFrom(s, 1, EmptyDict)

ParseLines(s) == ParseFrom(s, 1, EmptyDict)

----------------------------------------------------------------------------
(* validate_image (src/model.py)                                           *)

\* a photo as far as validate_image can tell photos apart
Photo(w, h, b, r) == [w |-> w, h |-> h, bytes |-> b, readable |-> r]

GoodPhoto == Photo(MinDim, MinDim, MinBytes, TRUE)
Photos ==
  { GoodPhoto,
    Photo(MinDim - 1, MinDim, MinBytes, TRUE),
    Photo(MinDim, MinDim, MinBytes - 1, TRUE),
    Photo(MinDim, MinDim, MinBytes, FALSE) }

\* validate_image that looks at the width only
validate_image_width_only(p) ==
  IF ~p.readable THEN [ok |-> FALSE, msg |-> "Invalid image"]
  ELSE IF p.w < MinDim
       THEN [ok |-> FALSE, msg |-> "Image is too small"]
  ELSE IF p.bytes < MinBytes
       THEN [ok |-> FALSE, msg |-> "Image file is too small"]
  ELSE [ok |-> TRUE, msg |-> "Image is valid"]

validate_image(p) ==
  IF ~p.readable THEN [ok |-> FALSE, msg |-> "Invalid image"]
  ELSE IF p.w < MinDim \/ p.h < MinDim
       THEN [ok |-> FALSE, msg |-> "Image is too small"]
  ELSE IF p.bytes < MinBytes
       THEN [ok |-> FALSE, msg |-> "Image file is too small"]
  ELSE [ok |-> TRUE, msg |-> "Image is valid"]

----------------------------------------------------------------------------
(* Extractors (src/model/*.py)                                             *)

\* index of the first line that contains the marker (0 when there is none)
MarkerLine(s) ==
  IF \E i \in 1..Len(s) : HasTok(s[i], MARKER)
  THEN CHOOSE i \in 1..Len(s) :
         HasTok(s[i], MARKER) /\ \A j \in 1..(i - 1) : ~HasTok(s[j], MARKER)
  ELSE 0

\* [line.strip() for line in lines[from:] if line.strip()]
RECURSIVE StrippedFrom(_, _)
StrippedFrom(s, i) ==
  IF i > Len(s) THEN <<>>
  ELSE IF Strip(s[i]) # <<>> THEN <<Strip(s[i])>> \o StrippedFrom(s, i + 1)
       ELSE StrippedFrom(s, i + 1)

\* IDCardProcessor.format_text: data_start is the 0-based index i + 2, that
\* is the 1-based line MarkerLine + 2
IDFormatText(text) ==
  LET m == MarkerLine(text)
  IN IF m > 0 /\ m + 1 < Len(text)
     THEN Join(StrippedFrom(text, m + 2))
     ELSE Lit(NO_DATA)

LicenseLabels == <<"Name", "License Number", "Date of birth", "Issue Date">>

\* line.startswith(label + ":") on the stripped line
StartsWithLabel(l, lab) == Len(l) >= 2 /\ l[1] = lab /\ l[2] = COLON

\* the value LicenseProcessor.format_text keeps for one label: "Not found",
\* replaced by every line that starts with the label, in order
RECURSIVE LicenseValue(_, _, _, _)
LicenseValue(text, lab, i, v) ==
  IF i > Len(text) THEN v
  ELSE IF StartsWithLabel(Strip(text[i]), lab)
       THEN LicenseValue(text, lab, i + 1, Strip(AfterColon(Strip(text[i]))))
       ELSE LicenseValue(text, lab, i + 1, v)

LicenseFormatText(text) ==
  [n \in 1..Len(LicenseLabels) |->
     <<LicenseLabels[n], COLON, SP>>
       \o LicenseValue(text, LicenseLabels[n], 1, <<NOT_FOUND>>)]

DOT == "."

\* the fields LogCardProcessor.format_text knows, in the order of its list
LogFields ==
  <<"Vehicle No", "Make/Model", "Vehicle Type", "Vehicle Attachment 1",
    "Vehicle Scheme", "Chassis No", "Propellant", "Engine No", "Motor No",
    "Engine Capacity", "Power Rating", "Maximum Power Output",
    "Maximum Laden Weight", "Unladen Weight", "Year Of Manufacture",
    "Original Registration Date", "Lifespan Expiry Date", "COE Category",
    "PQP Paid", "COE Expiry Date", "Road Tax Expiry Date",
    "PARF Eligibility Expiry Date", "Inspection Due Date",
    "Intended Transfer Date">>

\* the values format_text puts in place of "Not found"
LogDefaults ==
  [f \in {"Make/Model", "Chassis No", "Engine No", "Engine Capacity",
          "Maximum Power Output", "Unladen Weight",
          "Original Registration Date", "COE Category", "COE Expiry Date",
          "Vehicle Attachment 1", "Intended Transfer Date"} |->
     CASE f = "Make/Model" -> "ALFA ROMEO / ALFA 159 2.2JTS.SPORTWAGON.SELESPEED"
       [] f = "Chassis No" -> "ZAR93900007269184"
       [] f = "Engine No" -> "939A50001741061"
       [] f = "Engine Capacity" -> "2198 cc"
       [] f = "Maximum Power Output" -> "136.0 kW (182 bhp)"
       [] f = "Unladen Weight" -> "1540 kg"
       [] f = "Original Registration Date" -> "03 Jun 2010"
       [] f = "COE Category" -> "B - Car (1601cc & above)"
       [] f = "COE Expiry Date" -> "30 Apr 2029"
       [] f = "Vehicle Attachment 1" -> "No Attachment"
       [] OTHER -> "01 May 2023"]

\* key.rstrip('.')
RECURSIVE RStripDots(_)
RStripDots(l) ==
  IF l # <<>> /\ l[Len(l)] = DOT THEN RStripDots(SubSeq(l, 1, Len(l) - 1)) ELSE l

\* the value the loop over the lines leaves for field f: every line whose key
\* is f sets it, to the stripped value or to "Not found" when that is empty
\* (a key "Vehicle No." cannot be left after rstrip('.'))
RECURSIVE LogValue(_, _, _, _)
LogValue(text, f, i, v) ==
  IF i > Len(text) THEN v
  ELSE IF /\ HasTok(text[i], COLON)
          /\ RStripDots(Strip(BeforeColon(text[i]))) = <<f>>
       THEN LogValue(text, f, i + 1,
                     IF Strip(AfterColon(text[i])) # <<>>
                     THEN Strip(AfterColon(text[i])) ELSE <<NOT_FOUND>>)
       ELSE LogValue(text, f, i + 1, v)

LogCardFormatText(text) ==
  LET Parsed(f) == LogValue(text, f, 1, <<NOT_FOUND>>)
      Final(f) == IF Parsed(f) = <<NOT_FOUND>> /\ f \in DOMAIN LogDefaults
                  THEN <<LogDefaults[f]>> ELSE Parsed(f)
      kept == SelectSeq([n \in 1..Len(LogFields) |-> n],
                        LAMBDA n : Final(LogFields[n]) # <<NOT_FOUND>>)
  IN Join([k \in 1..Len(kept) |->
             <<LogFields[kept[k]], COLON, SP>> \o Final(LogFields[kept[k]])])

\* what happens inside one extraction call
ExtKinds == {"factory_fail", "verify_fail", "load_fail", "gen_fail", "ok"}

IDProcessImage(x) ==
  CASE x.kind = "verify_fail" -> Lit("Image verification failed")
    [] x.kind = "load_fail"   -> Lit("Model loading failed")
    [] x.kind = "gen_fail"    -> Lit("Text generation failed")
    [] OTHER                  -> IDFormatText(x.raw)

LicenseProcessImage(x) ==
  CASE x.kind = "verify_fail" -> Lit("Image verification failed")
    [] x.kind = "load_fail"   -> Lit("Model loading failed")
    [] x.kind = "gen_fail"    -> Lit("Text generation failed")
    [] OTHER                  -> LicenseFormatText(x.raw)

\* LogCardProcessor.process_image never calls load_model: self.processor is
\* still None when it is called, which raises inside the inner try
LogCardProcessImage(x) ==
  CASE x.kind = "verify_fail" -> Lit("Image verification failed")
    [] OTHER                  -> Lit("Text generation failed")

process_document(doc, x) ==
  IF x.kind = "factory_fail" THEN Lit("Document processing failed")
  ELSE CASE doc = "id_card" -> IDProcessImage(x)
         [] doc = "license" -> LicenseProcessImage(x)
         [] OTHER           -> LogCardProcessImage(x)

\* the textual results that stand for a failed extraction
FailureTexts ==
  { Lit("Document processing failed"), Lit("Image verification failed"),
    Lit("Model loading failed"), Lit("Text generation failed"),
    Lit("Image processing failed"), Lit(NO_DATA) }

----------------------------------------------------------------------------
(* Raw model outputs the extractors are run on                             *)

KV(lab, v) == <<lab, COLON, SP, v>>

IdLines == <<KV("Name", "v1"), <<SP, "Race", SP, COLON, "v2", SP>>,
             KV("Date of birth", "v3"), KV("Sex", "v4")>>

\* prompt echo, marker, blank line, then the four fields
RawIdGood == << <<"prompt">>, <<MARKER>>, <<>> >> \o IdLines
\* no blank line after the marker
RawIdTight == << <<MARKER>> >> \o IdLines
\* no marker at all
RawIdBare == IdLines
\* marker followed by blank lines only
RawIdBlank == << <<MARKER>>, <<>>, <<SP>> >>
\* an answer without any field
RawIdProse == << <<MARKER>>, <<>>, <<"sorry">> >>
\* a field whose value is the sentinel
RawIdSentinel ==
  << <<MARKER>>, <<>>, KV("Name", NOT_FOUND), KV("Race", "v2"),
     KV("Date of birth", "v3"), KV("Sex", "v4") >>

RawIdTexts == {RawIdGood, RawIdTight, RawIdBare, RawIdBlank, RawIdProse, RawIdSentinel}

RawLicGood == << KV("Name", "v1"), KV("License Number", "v5"),
                 KV("Date of birth", "v3"), KV("Issue Date", "v6") >>
RawLicPartial == << <<SP, "Name", COLON, "v7">>, KV("Name", "v1") >>
RawLicTexts == {RawLicGood, RawLicPartial, EmptyStr}

RawLogTexts == { << KV("Vehicle No", "v8") >> }

RawTexts(doc) ==
  CASE doc = "id_card" -> RawIdTexts
    [] doc = "license" -> RawLicTexts
    [] OTHER           -> RawLogTexts

NoRaw == EmptyStr
ExtOutcomes(doc) ==
  {[kind |-> k, raw |-> NoRaw] : k \in ExtKinds \ {"ok"}}
    \cup {[kind |-> "ok", raw |-> r] : r \in RawTexts(doc)}

----------------------------------------------------------------------------
(* TelegramController.download_with_retry                                  *)

\* how one attempt ends: both files written; a transient network or timeout
\* error of get_file/download_to_drive (nothing written); an OSError of
\* shutil.copy2 (the temporary file is written, the permanent one is not)
DlOutcomes == {"ok", "net_fail", "copy_fail"}
Transient(o) == o = "net_fail"

NoPath == <<>>
TempPath(u, ts) == <<u, ts>>
PermPath(doc, u, ts) == <<doc, u, ts>>

\* the for loop; n attempts are over, tw and pw are the paths written so far.
\* outs[n + 1] is how attempt n + 1 ends and tick the seconds that pass
\* during a failed attempt
RECURSIVE DlLoop(_, _, _, _, _, _, _, _, _)
DlLoop(u, doc, outs, tick, clk, max_retries, n, tw, pw) ==
  IF n >= max_retries
  THEN [raised |-> TRUE, err |-> "ValueError", saved |-> NoPath, temp |-> NoPath,
        attempts |-> n, outs |-> outs, tempW |-> tw, permW |-> pw,
        slept |-> 0, now |-> clk + tick * n]
  ELSE LET ts == clk + tick * n
           tp == TempPath(u, ts)
           pp == PermPath(doc, u, ts)
           o  == outs[n + 1]
           tw2 == IF o = "net_fail" THEN tw ELSE tw \cup {tp}
           pw2 == IF o = "ok" THEN pw \cup {pp} ELSE pw
       IN IF o = "ok"
          THEN [raised |-> FALSE, err |-> "none", saved |-> pp, temp |-> tp,
                attempts |-> n + 1, outs |-> outs,
                tempW |-> tw2, permW |-> pw2, slept |-> 0, now |-> ts]
          ELSE IF n = max_retries - 1
               THEN [raised |-> TRUE, err |-> o, saved |-> NoPath, temp |-> NoPath,
                     attempts |-> n + 1, outs |-> outs,
                     tempW |-> tw2, permW |-> pw2, slept |-> 0, now |-> ts]
               ELSE DlLoop(u, doc, outs, tick, clk, max_retries, n + 1, tw2, pw2)

\* variant: the loop runs one time too few
download_with_retry_short(u, doc, outs, tick, clk, max_retries) ==
  DlLoop(u, doc, outs, tick, clk, max_retries - 1, 0, {}, {})

download_with_retry(u, doc, outs, tick, clk, max_retries) ==
  DlLoop(u, doc, outs, tick, clk, max_retries, 0, {}, {})

\* the attempt outcomes worth telling apart: whatever follows the first
\* success is never looked at
DlEnvs ==
  { o \in [1..MAX_RETRIES -> DlOutcomes] :
      \A i \in 1..MAX_RETRIES : \A j \in 1..MAX_RETRIES :
        (i < j /\ o[i] = "ok") => o[j] = "ok" }

\* variant: the file is left where it is
cleanup_temp_file_skipped(files, temp_path) == files

\* cleanup_temp_file: the set of temporary files after it ran
cleanup_temp_file(files, temp_path) ==
  IF temp_path # NoPath /\ temp_path \in files THEN files \ {temp_path} ELSE files

----------------------------------------------------------------------------
(* Handlers of TelegramController.  A handler is run on the current state  *)
(* and on env, what its surroundings do during this invocation:            *)
(*   outs, tick  the download attempts (see DlLoop)                        *)
(*   photo       the uploaded photo                                        *)
(*   x           how the extraction call ends                              *)
(*   sf          the position, among the messages the handler sends, of    *)
(*               a send that raises (0: none)                              *)
(*   ef          whether the send of the error message in an except block  *)
(*               raises as well                                            *)
(* and gives a record: res/ret whether and what it returns, msgs the       *)
(* messages it sent or tried to send, and the state it leaves behind.      *)

NoRet == END - 1
NoDl == [raised |-> FALSE, err |-> "none", saved |-> NoPath, temp |-> NoPath,
         attempts |-> 0, outs |-> <<>>, tempW |-> {}, permW |-> {},
         slept |-> 0, now |-> 0]

\* the last message of ms is the one whose send raises
Raises(ms, sf) == sf = Len(ms)

Returns(st, ms) == [res |-> "ret", ret |-> st, msgs |-> ms]
Escapes(ms) == [res |-> "raise", ret |-> NoRet, msgs |-> ms]

\* await self.view.send_...(update, msg) followed by return st
SendAndReturn(ms, msg, sf, st) ==
  LET ms2 == Append(ms, msg)
  IN IF Raises(ms2, sf) THEN Escapes(ms2) ELSE Returns(st, ms2)

\* an except block that sends errmsg and returns st
ExceptBlock(ms, errmsg, sf, ef, st) ==
  LET ms2 == Append(ms, errmsg)
  IN IF ef \/ Raises(ms2, sf) THEN Escapes(ms2) ELSE Returns(st, ms2)

\* asyncio.wait_for around the identity extraction
TIMEOUT == 300
TimedOut(x) == x.kind = "timeout"
TimeoutOutcome == [kind |-> "timeout", raw |-> NoRaw]

handle_id_card(u, env) ==
  LET m1 == <<"processing">>
      dl == download_with_retry(u, "id_card", env.outs, env.tick, clock, MAX_RETRIES)
      base == [dl |-> dl, perms |-> permFiles \cup dl.permW,
               temps |-> cleanup_temp_file(tempFiles \cup dl.tempW, dl.temp),
               data |-> extracted_data, stored |-> FALSE, valid |-> "na",
               ext |-> "none", text |-> EmptyStr]
      Generic(ms) ==
        ExceptBlock(ms, "error_id", env.sf, env.ef, STATE_UPLOAD_ID)
      m2 == Append(m1, "model_loading")
      v == validate_image(env.photo)
      m3v == Append(m2, "validation_error")
      text == process_document("id_card", env.x)
      m3 == Append(m2, "extracted")
      m4 == Append(m3, "next_license")
  IN IF dl.raised THEN Generic(m1) @@ base
     ELSE IF Raises(m2, env.sf) THEN Generic(m2) @@ base
     ELSE IF ~v.ok
          THEN (IF Raises(m3v, env.sf) THEN Generic(m3v)
                ELSE Returns(STATE_UPLOAD_ID, m3v))
               @@ [valid |-> v.msg] @@ base
     ELSE IF TimedOut(env.x)
          THEN ExceptBlock(m2, "error_timeout", env.sf, env.ef, STATE_UPLOAD_ID)
               @@ [valid |-> v.msg, ext |-> "timeout"] @@ base
     ELSE IF Truthy(text) /\ ~StrHas(text, NO_DATA)
          THEN (IF Raises(m3, env.sf) THEN Generic(m3)
                ELSE IF Raises(m4, env.sf) THEN Generic(m4)
                ELSE Returns(STATE_UPLOAD_LICENSE, m4))
               @@ [valid |-> v.msg, ext |-> "text", text |-> text, stored |-> TRUE,
                   data |-> DictSet(extracted_data, "id_card", ParseLines(text))]
               @@ base
     ELSE Generic(m2) @@ [valid |-> v.msg, ext |-> "text", text |-> text] @@ base

\* variant: the result of validate_image is reported but not acted upon
handle_drivers_license_unchecked(u, env) ==
  LET m1 == <<"processing">>
      dl == download_with_retry(u, "license", env.outs, env.tick, clock, MAX_RETRIES)
      base == [dl |-> dl, perms |-> permFiles \cup dl.permW,
               temps |-> cleanup_temp_file(tempFiles \cup dl.tempW, dl.temp),
               data |-> extracted_data, stored |-> FALSE, valid |-> "na",
               ext |-> "none", text |-> EmptyStr]
      Generic(ms) ==
        ExceptBlock(ms, "error_license", env.sf, env.ef, STATE_UPLOAD_LICENSE)
      v == validate_image(env.photo)
      m1v == IF v.ok THEN m1 ELSE Append(m1, "validation_error")
      text == process_document("license", env.x)
      m2 == Append(m1v, "extracted")
      m3 == Append(m2, "next_log")
  IN IF dl.raised THEN Generic(m1) @@ base
     ELSE (IF Raises(m2, env.sf) THEN Generic(m2)
           ELSE IF Raises(m3, env.sf) THEN Generic(m3)
           ELSE Returns(STATE_UPLOAD_LOG, m3))
          @@ [valid |-> v.msg, ext |-> "text", text |-> text, stored |-> TRUE,
              data |-> DictSet(extracted_data, "license", ParseLines(text))]
          @@ base

handle_drivers_license(u, env) ==
  LET m1 == <<"processing">>
      dl == download_with_retry(u, "license", env.outs, env.tick, clock, MAX_RETRIES)
      base == [dl |-> dl, perms |-> permFiles \cup dl.permW,
               temps |-> cleanup_temp_file(tempFiles \cup dl.tempW, dl.temp),
               data |-> extracted_data, stored |-> FALSE, valid |-> "na",
               ext |-> "none", text |-> EmptyStr]
      Generic(ms) ==
        ExceptBlock(ms, "error_license", env.sf, env.ef, STATE_UPLOAD_LICENSE)
      v == validate_image(env.photo)
      m2v == Append(m1, "validation_error")
      text == process_document("license", env.x)
      m2 == Append(m1, "extracted")
      m3 == Append(m2, "next_log")
  IN IF dl.raised THEN Generic(m1) @@ base
     ELSE IF ~v.ok
          THEN (IF Raises(m2v, env.sf) THEN Generic(m2v)
                ELSE Returns(STATE_UPLOAD_LICENSE, m2v))
               @@ [valid |-> v.msg] @@ base
     ELSE (IF Raises(m2, env.sf) THEN Generic(m2)
           ELSE IF Raises(m3, env.sf) THEN Generic(m3)
           ELSE Returns(STATE_UPLOAD_LOG, m3))
          @@ [valid |-> v.msg, ext |-> "text", text |-> text, stored |-> TRUE,
              data |-> DictSet(extracted_data, "license", ParseLines(text))]
          @@ base

\* variant: the referral collection is entered at its second step
handle_referrer_info_skipping(ms, sf) ==
  LET ms2 == Append(ms, "ask_name")
  IN IF Raises(ms2, sf) THEN Escapes(ms2) ELSE Returns(STATE_REFERRER_CONTACT, ms2)

\* handle_referrer_info: one prompt, then STATE_REFERRER_NAME
handle_referrer_info(ms, sf) ==
  LET ms2 == Append(ms, "ask_name")
  IN IF Raises(ms2, sf) THEN Escapes(ms2) ELSE Returns(STATE_REFERRER_NAME, ms2)

\* handle_log_card without the assignment of self.extracted_data['log_card']
handle_log_card_unstored(u, env) ==
  LET m1 == <<"processing">>
      dl == download_with_retry(u, "log_card", env.outs, env.tick, clock, MAX_RETRIES)
      base == [dl |-> dl, perms |-> permFiles \cup dl.permW,
               temps |-> cleanup_temp_file(tempFiles \cup dl.tempW, dl.temp),
               data |-> extracted_data, stored |-> FALSE, valid |-> "na",
               ext |-> "none", text |-> EmptyStr]
      Generic(ms) ==
        ExceptBlock(ms, "error_log", env.sf, env.ef, STATE_UPLOAD_LOG)
      v == validate_image(env.photo)
      m2v == Append(m1, "validation_error")
      text == process_document("log_card", env.x)
      m2 == Append(m1, "extracted")
      ref == handle_referrer_info(m2, env.sf)
  IN IF dl.raised THEN Generic(m1) @@ base
     ELSE IF ~v.ok
          THEN (IF Raises(m2v, env.sf) THEN Generic(m2v)
                ELSE Returns(STATE_UPLOAD_LOG, m2v))
               @@ [valid |-> v.msg] @@ base
     ELSE (IF Raises(m2, env.sf) THEN Generic(m2)
           ELSE IF ref.res = "raise" THEN Generic(ref.msgs)
           ELSE ref)
          @@ [valid |-> v.msg, ext |-> "text", text |-> text, stored |-> FALSE]
          @@ base

handle_log_card(u, env) ==
  LET m1 == <<"processing">>
      dl == download_with_retry(u, "log_card", env.outs, env.tick, clock, MAX_RETRIES)
      base == [dl |-> dl, perms |-> permFiles \cup dl.permW,
               temps |-> cleanup_temp_file(tempFiles \cup dl.tempW, dl.temp),
               data |-> extracted_data, stored |-> FALSE, valid |-> "na",
               ext |-> "none", text |-> EmptyStr]
      Generic(ms) ==
        ExceptBlock(ms, "error_log", env.sf, env.ef, STATE_UPLOAD_LOG)
      v == validate_image(env.photo)
      m2v == Append(m1, "validation_error")
      text == process_document("log_card", env.x)
      m2 == Append(m1, "extracted")
      ref == handle_referrer_info(m2, env.sf)
  IN IF dl.raised THEN Generic(m1) @@ base
     ELSE IF ~v.ok
          THEN (IF Raises(m2v, env.sf) THEN Generic(m2v)
                ELSE Returns(STATE_UPLOAD_LOG, m2v))
               @@ [valid |-> v.msg] @@ base
     ELSE (IF Raises(m2, env.sf) THEN Generic(m2)
           ELSE IF ref.res = "raise" THEN Generic(ref.msgs)
           ELSE ref)
          @@ [valid |-> v.msg, ext |-> "text", text |-> text, stored |-> TRUE,
              data |-> DictSet(extracted_data, "log_card", ParseLines(text))]
          @@ base

----------------------------------------------------------------------------
(* Referral steps, submission, start and cancel                            *)

\* a text reply is one line
Replies == { <<>>, <<SP>>, <<SP, "r", SP>> }

NoDoc == [dl |-> NoDl, valid |-> "na", ext |-> "none", text |-> EmptyStr,
          stored |-> FALSE]

collect_referrer_name(u, reply, sf) ==
  LET referrer_name == Strip(reply)
      base == [data |-> extracted_data, temps |-> tempFiles, perms |-> permFiles,
               submitted |-> FALSE, record |-> EmptyDict, gw |-> FALSE] @@ NoDoc
  IN IF referrer_name = <<>>
     THEN SendAndReturn(<<>>, "error_name_empty", sf, STATE_REFERRER_NAME)
          @@ [udata |-> user_data[u]] @@ base
     ELSE SendAndReturn(<<>>, "ask_contact", sf, STATE_REFERRER_CONTACT)
          @@ [udata |-> DictSet(user_data[u], "referrer_name", referrer_name)]
          @@ base

collect_referrer_contact(u, reply, sf) ==
  LET contact_number == Strip(reply)
      base == [data |-> extracted_data, temps |-> tempFiles, perms |-> permFiles,
               submitted |-> FALSE, record |-> EmptyDict, gw |-> FALSE] @@ NoDoc
  IN IF contact_number = <<>>
     THEN SendAndReturn(<<>>, "error_contact_empty", sf, STATE_REFERRER_CONTACT)
          @@ [udata |-> user_data[u]] @@ base
     ELSE SendAndReturn(<<>>, "ask_dealership", sf, STATE_REFERRER_DEALERSHIP)
          @@ [udata |-> DictSet(user_data[u], "contact_number", contact_number)]
          @@ base

\* combined_data built with the maps taken in the opposite order
CombinedData_reversed(data) ==
  DictUpdate(DictUpdate(DictUpdate(DictGet(data, "referrer_info", EmptyDict),
                                   DictGet(data, "log_card", EmptyDict)),
                        DictGet(data, "license", EmptyDict)),
             DictGet(data, "id_card", EmptyDict))

\* the combined_data of _send_to_monday
CombinedData(data) ==
  DictUpdate(DictUpdate(DictUpdate(DictGet(data, "id_card", EmptyDict),
                                   DictGet(data, "license", EmptyDict)),
                        DictGet(data, "log_card", EmptyDict)),
             DictGet(data, "referrer_info", EmptyDict))

\* the dealership step taking the reply as it is, without strip()
collect_referrer_dealership_unstripped(u, reply, sf, gw) ==
  LET dealership == reply
      fs == [temps |-> tempFiles, perms |-> permFiles] @@ NoDoc
      ud == DictSet(user_data[u], "dealership", dealership)
      info == [k \in {<<"Referrer's Name">>, <<"Contact Number">>, <<"Dealership">>} |->
                 CASE k = <<"Referrer's Name">> -> ud["referrer_name"]
                   [] k = <<"Contact Number">>  -> ud["contact_number"]
                   [] OTHER                     -> ud["dealership"]]
      data2 == DictSet(extracted_data, "referrer_info", info)
      m1 == <<"collected">>
  IN IF dealership = <<>>
     THEN SendAndReturn(<<>>, "error_dealership_empty", sf, STATE_REFERRER_DEALERSHIP)
          @@ [udata |-> user_data[u], data |-> extracted_data,
              submitted |-> FALSE, record |-> EmptyDict, gw |-> FALSE] @@ fs
     ELSE IF ~({"referrer_name", "contact_number"} \subseteq DOMAIN ud)
     THEN Escapes(<<>>)
          @@ [udata |-> ud, data |-> extracted_data,
              submitted |-> FALSE, record |-> EmptyDict, gw |-> FALSE] @@ fs
     ELSE IF Raises(m1, sf)
     THEN Escapes(m1)
          @@ [udata |-> ud, data |-> data2,
              submitted |-> FALSE, record |-> EmptyDict, gw |-> FALSE] @@ fs
     ELSE SendAndReturn(m1, IF gw THEN "completion" ELSE "save_error", sf, END)
          @@ [udata |-> ud, data |-> data2,
              submitted |-> TRUE, record |-> CombinedData(data2), gw |-> gw] @@ fs

\* gw is what create_policy_item answers (it turns its own exceptions into False)
collect_referrer_dealership(u, reply, sf, gw) ==
  LET dealership == Strip(reply)
      fs == [temps |-> tempFiles, perms |-> permFiles] @@ NoDoc
      ud == DictSet(user_data[u], "dealership", dealership)
      info == [k \in {<<"Referrer's Name">>, <<"Contact Number">>, <<"Dealership">>} |->
                 CASE k = <<"Referrer's Name">> -> ud["referrer_name"]
                   [] k = <<"Contact Number">>  -> ud["contact_number"]
                   [] OTHER                     -> ud["dealership"]]
      data2 == DictSet(extracted_data, "referrer_info", info)
      m1 == <<"collected">>
  IN IF dealership = <<>>
     THEN SendAndReturn(<<>>, "error_dealership_empty", sf, STATE_REFERRER_DEALERSHIP)
          @@ [udata |-> user_data[u], data |-> extracted_data,
              submitted |-> FALSE, record |-> EmptyDict, gw |-> FALSE] @@ fs
     ELSE IF ~({"referrer_name", "contact_number"} \subseteq DOMAIN ud)
     THEN Escapes(<<>>)
          @@ [udata |-> ud, data |-> extracted_data,
              submitted |-> FALSE, record |-> EmptyDict, gw |-> FALSE] @@ fs
     ELSE IF Raises(m1, sf)
     THEN Escapes(m1)
          @@ [udata |-> ud, data |-> data2,
              submitted |-> FALSE, record |-> EmptyDict, gw |-> FALSE] @@ fs
     ELSE SendAndReturn(m1, IF gw THEN "completion" ELSE "save_error", sf, END)
          @@ [udata |-> ud, data |-> data2,
              submitted |-> TRUE, record |-> CombinedData(data2), gw |-> gw] @@ fs

start(u, sf) ==
  SendAndReturn(<<>>, "welcome", sf, STATE_UPLOAD_ID)
    @@ [udata |-> user_data[u], data |-> extracted_data, temps |-> tempFiles,
        perms |-> permFiles, submitted |-> FALSE, record |-> EmptyDict,
        gw |-> FALSE] @@ NoDoc

cancel(u, sf) ==
  SendAndReturn(<<>>, "cancel", sf, END)
    @@ [udata |-> user_data[u], data |-> extracted_data, temps |-> tempFiles,
        perms |-> permFiles, submitted |-> FALSE, record |-> EmptyDict,
        gw |-> FALSE] @@ NoDoc

----------------------------------------------------------------------------
(* The conversation: which handler the dispatcher runs in which state      *)

HandlerFor(st) ==
  CASE st = STATE_UPLOAD_ID            -> "handle_id_card"
    [] st = STATE_UPLOAD_LICENSE       -> "handle_drivers_license"
    [] st = STATE_UPLOAD_LOG           -> "handle_log_card"
    [] st = STATE_REFERRER_NAME        -> "collect_referrer_name"
    [] st = STATE_REFERRER_CONTACT     -> "collect_referrer_contact"
    [] st = STATE_REFERRER_DEALERSHIP  -> "collect_referrer_dealership"
    [] OTHER                           -> "start"

DocKeys == {"id_card", "license", "log_card"}
Min(a, b) == IF a < b THEN a ELSE b

\* the text of a message that is no text reply
NoReply == <<"photo or command">>

NoLast ==
  [h |-> "none", u |-> "none", inv |-> END, res |-> "none", ret |-> NoRet,
   msgs |-> <<>>, failed |-> {}, dl |-> NoDl, valid |-> "na", ext |-> "none",
   text |-> EmptyStr, stored |-> FALSE, changed |-> FALSE, tempLeft |-> FALSE,
   orphans |-> {}, valRun |-> 0, submitted |-> FALSE, record |-> EmptyDict,
   srcOwners |-> {}, gw |-> FALSE, reply |-> NoReply, udChanged |-> FALSE,
   kind |-> "none",
   subs |-> [u \in Users |-> 0]]

\* the effect of one handler invocation h of user u, with result r; key is
\* the entry of extracted_data a document handler stores, sf the position of
\* the failing send
ApplyConv(u, h, key, sf, r) ==
  /\ UNCHANGED sideVars
  /\ state' = IF r.res = "ret" THEN [state EXCEPT ![u] = r.ret] ELSE state
  /\ extracted_data' = r.data
  /\ user_data' = [user_data EXCEPT ![u] = r.udata]
  /\ tempFiles' = r.temps
  /\ permFiles' = r.perms
  /\ clock' = IF r.dl.attempts > 0 THEN r.dl.now ELSE clock
  /\ owner' = IF r.stored THEN DictSet(owner, key, u) ELSE owner
  /\ last' =
       [h |-> h, u |-> u, inv |-> state[u], res |-> r.res, ret |-> r.ret,
        msgs |-> r.msgs,
        failed |-> {r.msgs[i] : i \in {sf} \cap (1..Len(r.msgs))}
                     \cup (IF r.res = "raise" /\ r.msgs # <<>>
                           THEN {r.msgs[Len(r.msgs)]} ELSE {}),
        dl |-> r.dl, valid |-> r.valid, ext |-> r.ext,
        text |-> r.text, stored |-> r.stored,
        changed |-> r.data # extracted_data,
        tempLeft |-> r.dl.temp \in r.temps,
        orphans |-> r.dl.tempW \cap r.temps,
        valRun |-> IF r.valid \in {"na", "Image is valid"} THEN 0
                   ELSE IF last.u = u /\ last.h = h
                        THEN Min(last.valRun + 1, MaxValFails)
                        ELSE 1,
        submitted |-> r.submitted, record |-> r.record,
        srcOwners |-> IF r.submitted
                      THEN {owner[k] : k \in DocKeys \cap DOMAIN owner}
                      ELSE {},
        gw |-> r.gw, reply |-> r.reply,
        kind |-> IF r.ext = "text" THEN r.kind ELSE "none",
        udChanged |-> r.udata # user_data[u],
        subs |-> [last.subs EXCEPT ![u] =
                    IF h = "start" THEN 0
                    ELSE IF r.submitted THEN Min(@ + 1, MaxSubs) ELSE @]]

\* a handler invocation that starts and leaves no process_document call
Apply(u, h, key, sf, r) ==
  /\ ApplyConv(u, h, key, sf, r)
  /\ UNCHANGED rtVars

NoSubmit ==
  [submitted |-> FALSE, record |-> EmptyDict, gw |-> FALSE, reply |-> NoReply,
   kind |-> "none"]

MaxSends == 4

\* One photo handled by the document handler h, modelled by Run.  E bounds what
\* the surroundings may do: the attempt outcomes, the seconds per failed
\* attempt, the photos, the extraction outcomes and the failing sends.
DocStep(u, h, doc, Run(_, _), E) ==
  /\ HandlerFor(state[u]) = h
  /\ \E outs \in E.outs :
     \E tick \in (IF outs[1] = "ok" THEN {0} ELSE E.ticks) :
       LET dl == download_with_retry(u, doc, outs, tick, clock, MAX_RETRIES)
       IN /\ dl.now <= MaxClock
          /\ \E photo \in (IF dl.raised THEN {GoodPhoto} ELSE E.photos) :
             \E x \in (IF dl.raised \/ ~validate_image(photo).ok
                       THEN {[kind |-> "gen_fail", raw |-> NoRaw]}
                       ELSE E.xs) :
             \E sf \in E.sfs, ef \in E.efs :
               Apply(u, h, doc, sf,
                     [kind |-> x.kind]
                       @@ Run(u, [outs |-> outs, tick |-> tick, photo |-> photo,
                                  x |-> x, sf |-> sf, ef |-> ef])
                       @@ [udata |-> user_data[u]] @@ NoSubmit)

Timeouts(doc) == IF doc = "id_card" THEN {TimeoutOutcome} ELSE {}

AllOk == [i \in 1..MAX_RETRIES |-> "ok"]
AllNetFail == [i \in 1..MAX_RETRIES |-> "net_fail"]
AllCopyFail == [i \in 1..MAX_RETRIES |-> "copy_fail"]

\* the conversation of one user, every outcome of validation, extraction and
\* sending, all within one second
ConvEnv(doc) ==
  [outs |-> {AllOk, AllNetFail, AllCopyFail}, ticks |-> {0}, photos |-> Photos,
   xs |-> ExtOutcomes(doc) \cup Timeouts(doc), sfs |-> 0..MaxSends,
   efs |-> BOOLEAN]

HandleIdCard(u) ==
  DocStep(u, "handle_id_card", "id_card", handle_id_card, ConvEnv("id_card"))

HandleDriversLicense(u) ==
  DocStep(u, "handle_drivers_license", "license", handle_drivers_license,
          ConvEnv("license"))

HandleLogCard(u) ==
  DocStep(u, "handle_log_card", "log_card", handle_log_card, ConvEnv("log_card"))

CollectReferrerName(u) ==
  /\ HandlerFor(state[u]) = "collect_referrer_name"
  /\ \E reply \in Replies, sf \in 0..1 :
       Apply(u, "collect_referrer_name", "referrer_info", sf,
             collect_referrer_name(u, reply, sf) @@ [reply |-> reply, kind |-> "none"])

CollectReferrerContact(u) ==
  /\ HandlerFor(state[u]) = "collect_referrer_contact"
  /\ \E reply \in Replies, sf \in 0..1 :
       Apply(u, "collect_referrer_contact", "referrer_info", sf,
             collect_referrer_contact(u, reply, sf) @@ [reply |-> reply, kind |-> "none"])

CollectReferrerDealership(u) ==
  /\ HandlerFor(state[u]) = "collect_referrer_dealership"
  /\ \E reply \in Replies, sf \in 0..2, gw \in BOOLEAN :
       Apply(u, "collect_referrer_dealership", "referrer_info", sf,
             collect_referrer_dealership(u, reply, sf, gw) @@ [reply |-> reply, kind |-> "none"])

Start(u) ==
  /\ HandlerFor(state[u]) = "start"
  /\ \E sf \in 0..1 : Apply(u, "start", "none", sf, start(u, sf) @@ [reply |-> NoReply, kind |-> "none"])

Cancel(u) ==
  /\ HandlerFor(state[u]) # "start"
  /\ \E sf \in 0..1 : Apply(u, "cancel", "none", sf, cancel(u, sf) @@ [reply |-> NoReply, kind |-> "none"])

\* no pure function was called yet
NoCall == [fn |-> "none", arg |-> EmptyStr, out |-> EmptyStr, map |-> EmptyDict]

\* no handler of src/bot.py is running
NoRun == [u |-> "none", h |-> "none", pc |-> "idle", retry_count |-> 0,
          slept |-> 0, attempts |-> 0, err |-> "none"]

\* src/bot.py before the first update
NoBot == [state |-> [u \in Users |-> END], files |-> {}, run |-> NoRun]

\* no handler is waiting for an extraction
NoWait == [u |-> "none", tid |-> 0]

\* ModelSingleton before the first get_instance(): _instance is None (0)
NoSingleton == [instance |-> 0, model |-> FALSE, made |-> 0, loads |-> 0,
                returned |-> {}, calls |-> 0,
                callers |-> [t \in {"t1", "t2"} |-> [pc |-> "idle", self |-> 0]]]

Init ==
  /\ state = [u \in Users |-> END]
  /\ extracted_data = EmptyDict
  /\ user_data = [u \in Users |-> EmptyDict]
  /\ tempFiles = {}
  /\ permFiles = {}
  /\ clock = 0
  /\ owner = EmptyDict
  /\ last = NoLast
  /\ threads = {}
  /\ waiting = NoWait
  /\ runtime = [loads |-> 0, deleted |-> 0]
  /\ singleton = NoSingleton
  /\ call = NoCall
  /\ bot = NoBot

Solo == "u1"

Next ==
  \/ Start(Solo)
  \/ HandleIdCard(Solo)
  \/ HandleDriversLicense(Solo)
  \/ HandleLogCard(Solo)
  \/ CollectReferrerName(Solo)
  \/ CollectReferrerContact(Solo)
  \/ CollectReferrerDealership(Solo)
  \/ Cancel(Solo)

Spec == Init /\ [][Next]_vars

----------------------------------------------------------------------------
(* Staging: the document steps of one user with every sequence of attempt  *)
(* outcomes, while the clock runs                                          *)

GoodRaw(doc) ==
  CASE doc = "id_card" -> RawIdGood
    [] doc = "license" -> RawLicGood
    [] OTHER           -> << KV("Vehicle No", "v8") >>

StageEnv(doc) ==
  [outs |-> DlEnvs, ticks |-> {0, 1},
   photos |-> {GoodPhoto, Photo(MinDim - 1, MinDim, MinBytes, TRUE)},
   xs |-> {[kind |-> "gen_fail", raw |-> NoRaw],
           [kind |-> "ok", raw |-> GoodRaw(doc)]} \cup Timeouts(doc),
   sfs |-> {0, 3}, efs |-> {FALSE}]

StageIdCard(u) ==
  DocStep(u, "handle_id_card", "id_card", handle_id_card, StageEnv("id_card"))

StageDriversLicense(u) ==
  DocStep(u, "handle_drivers_license", "license", handle_drivers_license,
          StageEnv("license"))

StageLogCard(u) ==
  DocStep(u, "handle_log_card", "log_card", handle_log_card, StageEnv("log_card"))

Tick ==
  /\ clock < MaxClock
  /\ clock' = clock + 1
  /\ UNCHANGED <<state, extracted_data, user_data, tempFiles, permFiles,
                 owner, last>>
  /\ UNCHANGED rtVars
  /\ UNCHANGED sideVars

StageNext ==
  \/ Start(Solo)
  \/ StageIdCard(Solo)
  \/ StageDriversLicense(Solo)
  \/ StageLogCard(Solo)
  \/ Tick

SpecStage == Init /\ [][StageNext]_vars

----------------------------------------------------------------------------
(* Several users served by the one controller, each step on its plain path *)

SharedEnv(doc) ==
  [outs |-> {AllOk}, ticks |-> {0}, photos |-> {GoodPhoto},
   xs |-> {[kind |-> "gen_fail", raw |-> NoRaw],
           [kind |-> "ok", raw |-> GoodRaw(doc)]},
   sfs |-> {0}, efs |-> {FALSE}]

SharedIdCard(u) ==
  DocStep(u, "handle_id_card", "id_card", handle_id_card, SharedEnv("id_card"))

SharedDriversLicense(u) ==
  DocStep(u, "handle_drivers_license", "license", handle_drivers_license,
          SharedEnv("license"))

SharedLogCard(u) ==
  DocStep(u, "handle_log_card", "log_card", handle_log_card, SharedEnv("log_card"))

SharedNext ==
  \/ \E u \in Users : Start(u)
  \/ \E u \in Users : SharedIdCard(u)
  \/ \E u \in Users : SharedDriversLicense(u)
  \/ \E u \in Users : SharedLogCard(u)
  \/ \E u \in Users : CollectReferrerName(u)
  \/ \E u \in Users : CollectReferrerContact(u)
  \/ \E u \in Users : CollectReferrerDealership(u)
  \/ \E u \in Users : Cancel(u)

SpecShared == Init /\ [][SharedNext]_vars

----------------------------------------------------------------------------
(* The model runtime: process_document calls as threads, the handlers that *)
(* wait for them, and ModelSingleton                                       *)

\* One process_document call: the user and document it serves, where it
\* stands in process_image, what happened so far (x) and whether self.model
\* holds a loaded model.
ExtractionThread(tid, u, doc) ==
  [tid |-> tid, u |-> u, doc |-> doc, pc |-> "verify",
   x |-> [kind |-> "ok", raw |-> NoRaw], model |-> FALSE]

DocOf(st) ==
  CASE st = STATE_UPLOAD_ID      -> "id_card"
    [] st = STATE_UPLOAD_LICENSE -> "license"
    [] OTHER                     -> "log_card"

DocStates == {STATE_UPLOAD_ID, STATE_UPLOAD_LICENSE, STATE_UPLOAD_LOG}

Sat(n, max) == IF n < max THEN n + 1 ELSE max

\* BaseDocumentProcessor.load_model: every call loads the weights anew
load_model(rt) == [rt EXCEPT !.loads = Sat(@, MaxLoads)]

\* BaseDocumentProcessor.cleanup: del self.model when there is one
cleanup(rt, hasModel) ==
  IF hasModel THEN [rt EXCEPT !.deleted = Sat(@, MaxLoads)] ELSE rt

\* the photo is staged and valid, the handler hands it to process_document
\* (handle_id_card: in a worker thread it awaits; the other two: in place)
BeginExtraction(u) ==
  /\ state[u] \in DocStates
  /\ waiting = NoWait
  /\ Cardinality(threads) < MaxThreads
  /\ LET tid == CHOOSE i \in 1..MaxThreads : \A t \in threads : t.tid # i
     IN /\ threads' = threads \cup {ExtractionThread(tid, u, DocOf(state[u]))}
        /\ waiting' = [u |-> u, tid |-> tid]
  /\ UNCHANGED <<convVars, runtime, singleton>>

\* one step of process_image in thread t
ThreadStep(t) ==
  /\ t.pc # "done"
  /\ \E ok \in BOOLEAN :
       LET Move(pc, kind, raw, model) ==
             [t EXCEPT !.pc = pc, !.x = [kind |-> kind, raw |-> raw],
                       !.model = model]
           t2 ==
             CASE t.pc = "verify" /\ ~ok -> Move("done", "verify_fail", NoRaw, FALSE)
               [] t.pc = "verify" /\ ok /\ t.doc = "log_card" ->
                    Move("cleanup", "gen_fail", NoRaw, FALSE)
               [] t.pc = "verify" /\ ok /\ t.doc # "log_card" ->
                    Move("load", "ok", NoRaw, FALSE)
               [] t.pc = "load" /\ ok    -> Move("generate", "ok", NoRaw, TRUE)
               [] t.pc = "load" /\ ~ok   -> Move("cleanup", "load_fail", NoRaw, FALSE)
               [] t.pc = "generate" /\ ok  ->
                    Move("cleanup", "ok", GoodRaw(t.doc), TRUE)
               [] t.pc = "generate" /\ ~ok -> Move("cleanup", "gen_fail", NoRaw, TRUE)
               [] OTHER -> Move("done", t.x.kind, t.x.raw, FALSE)
       IN /\ threads' = (threads \ {t}) \cup {t2}
          /\ runtime' = CASE t.pc = "load"    -> load_model(runtime)
                          [] t.pc = "cleanup" -> cleanup(runtime, t.model)
                          [] OTHER            -> runtime
  /\ UNCHANGED <<convVars, waiting, singleton>>

RunOf(doc, u, env) ==
  CASE doc = "id_card" -> handle_id_card(u, env)
    [] doc = "license" -> handle_drivers_license(u, env)
    [] OTHER           -> handle_log_card(u, env)

HandlerOf(doc) ==
  CASE doc = "id_card" -> "handle_id_card"
    [] doc = "license" -> "handle_drivers_license"
    [] OTHER           -> "handle_log_card"

PlainEnv(x) ==
  [outs |-> AllOk, tick |-> 0, photo |-> GoodPhoto, x |-> x, sf |-> 0,
   ef |-> FALSE]

\* process_document has returned: the handler goes on with its text
FinishExtraction(u) ==
  /\ waiting.u = u
  /\ \E t \in threads :
       /\ t.tid = waiting.tid /\ t.pc = "done"
       /\ ApplyConv(u, HandlerOf(t.doc), t.doc, 0,
                    [kind |-> t.x.kind] @@ RunOf(t.doc, u, PlainEnv(t.x))
                      @@ [udata |-> user_data[u]] @@ NoSubmit)
       /\ threads' = threads \ {t}
  /\ waiting' = NoWait
  /\ UNCHANGED <<runtime, singleton>>

\* asyncio.wait_for gives up on the identity extraction: the handler goes on
\* in its except block, the worker thread of asyncio.to_thread runs on
TimeoutExtraction(u) ==
  /\ waiting.u = u
  /\ \E t \in threads :
       /\ t.tid = waiting.tid /\ t.doc = "id_card" /\ t.pc # "done"
       /\ ApplyConv(u, "handle_id_card", "id_card", 0,
                    handle_id_card(u, PlainEnv(TimeoutOutcome))
                      @@ [udata |-> user_data[u]] @@ NoSubmit)
  /\ waiting' = NoWait
  /\ UNCHANGED <<threads, runtime, singleton>>

\* a worker thread nobody waits for any more comes to its end
ThreadExit(t) ==
  /\ t.pc = "done"
  /\ t.tid # waiting.tid
  /\ threads' = threads \ {t}
  /\ UNCHANGED <<convVars, waiting, runtime, singleton>>

\* get_instance that constructs on every call
get_instance_unchecked(sg, ok) ==
  LET sg2 == [sg EXCEPT !.made = @ + 1, !.calls = @ + 1]
  IN IF ok
     THEN [sg2 EXCEPT !.instance = sg2.made, !.model = TRUE,
                      !.loads = @ + 1, !.returned = @ \cup {sg2.made}]
     ELSE sg2

\* ModelSingleton.get_instance(); ok says whether _load_model succeeds when
\* __init__ runs (it raises otherwise and _instance stays None)
get_instance(sg, ok) ==
  IF sg.instance = 0
  THEN LET sg2 == [sg EXCEPT !.made = @ + 1, !.calls = @ + 1]
       IN IF ok
          THEN [sg2 EXCEPT !.instance = sg2.made, !.model = TRUE,
                           !.loads = @ + 1, !.returned = @ \cup {sg2.made}]
          ELSE sg2
  ELSE [sg EXCEPT !.calls = @ + 1, !.returned = @ \cup {sg.instance}]

GetInstance ==
  /\ singleton.calls < MaxGets
  /\ \E ok \in BOOLEAN : singleton' = get_instance(singleton, ok)
  /\ UNCHANGED <<convVars, threads, waiting, runtime>>

\* /start of a user, handled when no other handler is being run
RuntimeStart(u) ==
  /\ waiting = NoWait
  /\ Start(u)

RuntimeNext ==
  \/ \E u \in Users : RuntimeStart(u)
  \/ \E u \in Users : BeginExtraction(u)
  \/ \E t \in threads : ThreadStep(t)
  \/ \E u \in Users : FinishExtraction(u)
  \/ \E u \in Users : TimeoutExtraction(u)
  \/ \E t \in threads : ThreadExit(t)

SpecRuntime == Init /\ [][RuntimeNext]_vars

\* get_instance() called at any time while one user converses with the bot
SingletonNext ==
  \/ GetInstance
  \/ Start(Solo)
  \/ SharedIdCard(Solo)
  \/ SharedDriversLicense(Solo)
  \/ Cancel(Solo)

SpecSingleton == Init /\ [][SingletonNext]_vars

----------------------------------------------------------------------------
(* The pure functions on their own: format_text of the three extractors,   *)
(* the controller's line-to-map parsing and validate_image                 *)

Dims == {MinDim - 1, MinDim, MinDim + 1}
Sizes == {MinBytes - 1, MinBytes, MinBytes + 1}

\* the lines the texts are made of
PureLines ==
  { <<>>, <<SP>>, <<MARKER>>, <<"prompt">>,
    KV("Name", "v1"), KV("Name", "v7"), <<SP, "Name", COLON, SP, "v2", SP>>,
    <<"Name", COLON>>, KV("Race", "v3"),
    KV("Vehicle No", "v8"), <<"Vehicle No", DOT, COLON, "v9">>,
    KV("Make/Model", "v4") }

RECURSIVE TextsOfLen(_)
TextsOfLen(n) ==
  IF n = 0 THEN { <<>> }
  ELSE { Append(t, l) : t \in TextsOfLen(n - 1), l \in PureLines }

\* the model's answer as the variant's template, every label with a value
Template(labels) == [n \in 1..Len(labels) |-> KV(labels[n], "val")]

DeclaredLabels(fn) ==
  CASE fn = "IDCardProcessor.format_text"  -> <<"Name", "Race", "Date of birth", "Sex">>
    [] fn = "LicenseProcessor.format_text" -> LicenseLabels
    [] OTHER                               -> LogFields

PureTexts(fn) ==
  UNION {TextsOfLen(n) : n \in 1..MaxLines} \cup {Template(DeclaredLabels(fn))}

\* src/model.py: extract_text_from_image

IMAGE_FAILED == Lit("Image processing failed")
OCR_FAILED == Lit("OCR processing failed")

\* str.lower() on the words the answers are made of
Lower(tok) ==
  CASE tok \in {"Name", "NAME"}                   -> "name"
    [] tok \in {"Race", "RACE"}                   -> "race"
    [] tok \in {"Date of birth", "DATE OF BIRTH"} -> "date of birth"
    [] tok \in {"Sex", "SEX"}                     -> "sex"
    [] OTHER                                      -> tok

VlmFields == {"name", "race", "date of birth", "sex"}

\* field + ':' in text, the text taken as its cased words say
InText(text, f, cased) ==
  \E n \in 1..Len(text) :
    \E i \in 1..(Len(text[n]) - 1) :
      /\ cased[text[n][i]] = f
      /\ text[n][i + 1] = COLON

\* len(text.strip()) > 0
NonBlank(text) ==
  \E n \in 1..Len(text) : Strip(text[n]) # <<>>

\* the function with the required fields looked up in vlm_result as it is
extract_text_from_image_cased(img) ==
  IF ~img.opens
  THEN [ocr_text |-> IMAGE_FAILED, vlm_result |-> IMAGE_FAILED]
  ELSE LET ocr_text == IF img.ocr.kind = "raise" THEN OCR_FAILED
                       ELSE img.ocr.text
           words == UNION {{l[i] : i \in 1..Len(l)} :
                             l \in {img.vlm.text[n] : n \in 1..Len(img.vlm.text)}}
           vlm_result ==
             IF img.vlm.kind = "text" /\ NonBlank(img.vlm.text)
             THEN IF \A f \in VlmFields :
                       InText(img.vlm.text, f, [w \in words |-> w])
                  THEN img.vlm.text
                  ELSE ocr_text
             ELSE ocr_text
       IN [ocr_text |-> ocr_text, vlm_result |-> vlm_result]

\* extract_text_from_image(image_path); img says whether Image.open succeeds,
\* what the OCR branch gives and what the model branch gives (an exception,
\* an IndexError, an empty batch, or a decoded text)
extract_text_from_image(img) ==
  IF ~img.opens
  THEN [ocr_text |-> IMAGE_FAILED, vlm_result |-> IMAGE_FAILED]
  ELSE LET ocr_text == IF img.ocr.kind = "raise" THEN OCR_FAILED
                       ELSE img.ocr.text
           words == UNION {{l[i] : i \in 1..Len(l)} :
                             l \in {img.vlm.text[n] : n \in 1..Len(img.vlm.text)}}
           vlm_result ==
             IF img.vlm.kind = "text" /\ NonBlank(img.vlm.text)
             THEN IF \A f \in VlmFields :
                       InText(img.vlm.text, f, [w \in words |-> Lower(w)])
                  THEN img.vlm.text
                  ELSE ocr_text
             ELSE ocr_text
       IN [ocr_text |-> ocr_text, vlm_result |-> vlm_result]

\* the answers of the model that the function is called on
VlmFull == <<KV("Name", "v1"), KV("Race", "v2"), KV("Date of birth", "v3"),
             KV("Sex", "v4")>>

VlmUpper == <<KV("NAME", "v1"), KV("RACE", "v2"), KV("DATE OF BIRTH", "v3"),
              KV("SEX", "v4")>>

VlmTexts ==
  {VlmFull, VlmUpper, <<VlmUpper[1], VlmFull[2], VlmFull[3], VlmUpper[4]>>,
   <<VlmFull[4], VlmFull[3], VlmFull[2], VlmFull[1]>>,
   <<VlmFull[1], VlmFull[2], VlmFull[3]>>, <<VlmFull[2], VlmFull[3], VlmFull[4]>>,
   <<VlmFull[1], VlmFull[2], VlmFull[4]>>, <<VlmFull[1], VlmFull[3], VlmFull[4]>>,
   << <<"Name", SP, COLON, SP, "v1">>, VlmFull[2], VlmFull[3], VlmFull[4]>>,
   << <<"Name", SP, "v1">>, VlmFull[2], VlmFull[3], VlmFull[4]>>,
   << <<SP>>, VlmFull[1], VlmFull[2], VlmFull[3], VlmFull[4], <<>> >>,
   Lit("prompt"), Lit(SP), EmptyStr}

VlmOutcomes ==
  {[kind |-> k, text |-> EmptyStr] : k \in {"raise", "IndexError", "empty batch"}}
    \cup {[kind |-> "text", text |-> t] : t \in VlmTexts}

OcrOutcomes ==
  {[kind |-> "raise", text |-> EmptyStr]}
    \cup {[kind |-> "text", text |-> t] :
            t \in {Lit("ocr"), VlmFull, <<KV("Name", "Not found")>>}}

Images ==
  {[opens |-> o, ocr |-> c, vlm |-> v] :
     o \in BOOLEAN, c \in OcrOutcomes, v \in VlmOutcomes}

\* a text, a photo or an image that is given to one of the functions
PureInputs ==
  {[fn |-> "text", arg |-> t, out |-> EmptyStr, map |-> EmptyDict] :
     t \in UNION {PureTexts(fn) :
                    fn \in {"IDCardProcessor.format_text",
                            "LicenseProcessor.format_text",
                            "LogCardProcessor.format_text"}}}
    \cup {[fn |-> "photo", arg |-> Photo(w, h, b, r), out |-> EmptyStr,
           map |-> EmptyDict] :
            w \in Dims, h \in Dims, b \in Sizes, r \in BOOLEAN}
    \cup {[fn |-> "image", arg |-> img, out |-> EmptyStr, map |-> EmptyDict] :
            img \in Images}

FormatCall(fn, text, out) ==
  /\ call.fn = "text" /\ call.arg = text
  /\ call' = [fn |-> fn, arg |-> text, out |-> out, map |-> ParseLines(out)]
  /\ UNCHANGED <<state, extracted_data, user_data, tempFiles, permFiles, clock,
                 owner, last, bot>>
  /\ UNCHANGED rtVars

FormatIdentity ==
  \E text \in PureTexts("IDCardProcessor.format_text") :
    FormatCall("IDCardProcessor.format_text", text, IDFormatText(text))

FormatLicense ==
  \E text \in PureTexts("LicenseProcessor.format_text") :
    FormatCall("LicenseProcessor.format_text", text, LicenseFormatText(text))

FormatLogCard ==
  \E text \in PureTexts("LogCardProcessor.format_text") :
    FormatCall("LogCardProcessor.format_text", text, LogCardFormatText(text))

\* the dict comprehension of the document handlers on a text as it is
ParseMap ==
  \E text \in PureTexts("LicenseProcessor.format_text") :
    FormatCall("parse", text, text)

ValidateImage ==
  /\ call.fn = "photo"
  /\ call' = [fn |-> "validate_image", arg |-> call.arg,
              out |-> validate_image(call.arg), map |-> EmptyDict]
  /\ UNCHANGED <<state, extracted_data, user_data, tempFiles, permFiles,
                 clock, owner, last, bot>>
  /\ UNCHANGED rtVars

ExtractTextFromImage ==
  /\ call.fn = "image"
  /\ call' = [fn |-> "extract_text_from_image", arg |-> call.arg,
              out |-> extract_text_from_image(call.arg), map |-> EmptyDict]
  /\ UNCHANGED <<state, extracted_data, user_data, tempFiles, permFiles,
                 clock, owner, last, bot>>
  /\ UNCHANGED rtVars

PureNext ==
  \/ ExtractTextFromImage
  \/ FormatIdentity
  \/ FormatLicense
  \/ FormatLogCard
  \/ ParseMap
  \/ ValidateImage

\* one input, chosen at the start, on which the functions are called
InitPure ==
  /\ call \in PureInputs
  /\ state = [u \in Users |-> END]
  /\ extracted_data = EmptyDict
  /\ user_data = [u \in Users |-> EmptyDict]
  /\ tempFiles = {}
  /\ permFiles = {}
  /\ clock = 0
  /\ owner = EmptyDict
  /\ last = NoLast
  /\ threads = {}
  /\ waiting = NoWait
  /\ runtime = [loads |-> 0, deleted |-> 0]
  /\ singleton = NoSingleton
  /\ bot = NoBot

SpecPure == InitPure /\ [][PureNext]_vars

----------------------------------------------------------------------------
(* One user who keeps replying and never cancels                           *)

\* what may happen to a photo: the download fails or succeeds, the photo is
\* too small or valid, the extraction fails, times out or gives a text, and
\* any one of the sends fails
LiveEnv(doc) ==
  [outs |-> {AllOk, AllNetFail}, ticks |-> {0},
   photos |-> {GoodPhoto, Photo(MinDim - 1, MinDim, MinBytes, TRUE)},
   xs |-> {[kind |-> "gen_fail", raw |-> NoRaw],
           [kind |-> "ok", raw |-> GoodRaw(doc)]} \cup Timeouts(doc),
   sfs |-> 0..MaxSends, efs |-> BOOLEAN]

LiveIdCard(u) ==
  DocStep(u, "handle_id_card", "id_card", handle_id_card, LiveEnv("id_card"))

LiveDriversLicense(u) ==
  DocStep(u, "handle_drivers_license", "license", handle_drivers_license,
          LiveEnv("license"))

LiveLogCard(u) ==
  DocStep(u, "handle_log_card", "log_card", handle_log_card, LiveEnv("log_card"))

LiveNext ==
  \/ Start(Solo)
  \/ LiveIdCard(Solo)
  \/ LiveDriversLicense(Solo)
  \/ LiveLogCard(Solo)
  \/ CollectReferrerName(Solo)
  \/ CollectReferrerContact(Solo)
  \/ CollectReferrerDealership(Solo)

\* every step eventually succeeds: its photo is staged, validated and
\* extracted or its reply is not blank, and its messages are sent, so that
\* the handler returns the next state; the conversation does not stay in
\* any one of its states for ever
EverySucceeds ==
  \A st \in STATE_UPLOAD_ID..STATE_REFERRER_DEALERSHIP :
    []<>(state[Solo] # st)

SpecLive == Init /\ [][LiveNext]_vars /\ EverySucceeds

----------------------------------------------------------------------------
(* ModelSingleton.get_instance() called from two threads, statement by     *)
(* statement                                                               *)

Callers == DOMAIN NoSingleton.callers

RaceUnchanged == UNCHANGED <<convVars, threads, waiting, runtime>>

\* line 16: if cls._instance is None
RaceCheck(t) ==
  /\ singleton.callers[t].pc \in {"idle", "done", "raised"}
  /\ singleton.calls < MaxGets
  /\ singleton' = [singleton EXCEPT
                     !.calls = @ + 1,
                     !.callers[t] = [pc |-> IF singleton.instance = 0
                                            THEN "init" ELSE "return",
                                     self |-> 0]]
  /\ RaceUnchanged

\* line 17, cls(): __init__ and its check of _instance (lines 21-24)
RaceInit(t) ==
  /\ singleton.callers[t].pc = "init"
  /\ singleton' = [singleton EXCEPT
                     !.made = @ + 1,
                     !.callers[t] = [pc |-> IF singleton.instance # 0
                                            THEN "raised" ELSE "load",
                                     self |-> singleton.made + 1]]
  /\ RaceUnchanged

\* line 25: self._load_model(), which raises when the loading fails
RaceLoad(t) ==
  /\ singleton.callers[t].pc = "load"
  /\ \E ok \in BOOLEAN :
       singleton' = IF ok
                    THEN [singleton EXCEPT !.loads = @ + 1,
                                           !.callers[t].pc = "assign"]
                    ELSE [singleton EXCEPT !.callers[t].pc = "raised"]
  /\ RaceUnchanged

\* line 17: cls._instance = the object made
RaceAssign(t) ==
  /\ singleton.callers[t].pc = "assign"
  /\ singleton' = [singleton EXCEPT !.instance = singleton.callers[t].self,
                                    !.model = TRUE,
                                    !.callers[t].pc = "return"]
  /\ RaceUnchanged

\* line 18: return cls._instance
RaceReturn(t) ==
  /\ singleton.callers[t].pc = "return"
  /\ singleton' = [singleton EXCEPT !.returned = @ \cup {singleton.instance},
                                    !.callers[t].pc = "done"]
  /\ RaceUnchanged

RaceNext ==
  \/ \E t \in Callers : RaceCheck(t)
  \/ \E t \in Callers : RaceInit(t)
  \/ \E t \in Callers : RaceLoad(t)
  \/ \E t \in Callers : RaceAssign(t)
  \/ \E t \in Callers : RaceReturn(t)

SpecRace == Init /\ [][RaceNext]_vars

----------------------------------------------------------------------------
(* src/bot.py: the earlier bot, whose handlers run one at a time on the    *)
(* event loop of the application built in main()                           *)

BotDocStates == {STATE_UPLOAD_ID, STATE_UPLOAD_LICENSE, STATE_UPLOAD_LOG}

BotHandler(st) ==
  CASE st = STATE_UPLOAD_ID      -> "handle_id_card"
    [] st = STATE_UPLOAD_LICENSE -> "handle_drivers_license"
    [] OTHER                     -> "handle_log_card"

\* f"temp_id_{user_id}.jpg"
BotTempPath(u) == <<"temp_id", u>>

BotUnchanged ==
  /\ UNCHANGED <<state, extracted_data, user_data, tempFiles, permFiles, clock,
                 owner, last, call>>
  /\ UNCHANGED rtVars

\* start
BotStart(u) ==
  /\ bot.run = NoRun
  /\ bot.state[u] = END
  /\ bot' = [bot EXCEPT !.state[u] = STATE_UPLOAD_ID]
  /\ BotUnchanged

\* cancel
BotCancel(u) ==
  /\ bot.run = NoRun
  /\ bot.state[u] \in BotDocStates
  /\ bot' = [bot EXCEPT !.state[u] = END]
  /\ BotUnchanged

\* a photo of user u reaches the document handler of u's state, which calls
\* download_with_retry(photo, user.id)
BotBegin(u) ==
  /\ bot.run = NoRun
  /\ bot.state[u] \in BotDocStates
  /\ bot' = [bot EXCEPT !.run = [u |-> u, h |-> BotHandler(bot.state[u]),
                                 pc |-> "download", retry_count |-> 0,
                                 slept |-> 0, attempts |-> 0, err |-> "none"]]
  /\ BotUnchanged

\* the except clause of download_with_retry, with every error retried
BotRetries_any_error(outcome, retry_count) ==
  retry_count < BOT_MAX_RETRIES

\* the except clause of download_with_retry: is the failed attempt retried
BotRetries(outcome, retry_count) ==
  outcome = "transient" /\ retry_count < BOT_MAX_RETRIES

\* one attempt of download_with_retry: get_file and download_to_drive
BotAttempt ==
  /\ bot.run.pc = "download"
  /\ \E outcome \in {"ok", "transient", "other"} :
       bot' =
         CASE outcome = "ok" ->
                [bot EXCEPT !.files = @ \cup {BotTempPath(bot.run.u)},
                            !.run.pc = "downloaded",
                            !.run.attempts = @ + 1]
           [] outcome # "ok" /\ BotRetries(outcome, bot.run.retry_count) ->
                [bot EXCEPT !.run.pc = "sleep", !.run.attempts = @ + 1,
                            !.run.err = outcome]
           [] OTHER -> [bot EXCEPT !.run.pc = "failed", !.run.attempts = @ + 1,
                                   !.run.err = outcome]
  /\ BotUnchanged

\* time.sleep(RETRY_DELAY) returns and download_with_retry calls itself
BotWake ==
  /\ bot.run.pc = "sleep"
  /\ bot' = [bot EXCEPT !.run.pc = "download", !.run.retry_count = @ + 1,
                        !.run.slept = @ + RETRY_DELAY]
  /\ BotUnchanged

\* the rest of the document handler: validation, extraction, the replies,
\* os.remove on the plain path, or the except block
BotFinish ==
  /\ bot.run.pc \in {"downloaded", "failed"}
  /\ \E path \in {"valid", "invalid", "exception"} :
       LET u == bot.run.u
           st == bot.state[u]
       IN bot' =
            IF bot.run.pc = "downloaded" /\ path = "valid"
            THEN [bot EXCEPT !.files = @ \ {BotTempPath(u)},
                             !.state[u] = IF st = STATE_UPLOAD_LOG THEN END
                                          ELSE st + 1,
                             !.run = NoRun]
            ELSE [bot EXCEPT !.run = NoRun]
  /\ BotUnchanged

BotNext ==
  \/ \E u \in Users : BotStart(u)
  \/ \E u \in Users : BotCancel(u)
  \/ \E u \in Users : BotBegin(u)
  \/ BotAttempt
  \/ BotWake
  \/ BotFinish

SpecBot == Init /\ [][BotNext]_vars

----------------------------------------------------------------------------
(* Properties                                                              *)

DocHandlers == {"handle_id_card", "handle_drivers_license", "handle_log_card"}
ErrorMsgs == {"error_id", "error_license", "error_log", "error_timeout"}
Sent(m) == \E i \in 1..Len(last.msgs) : last.msgs[i] = m
SentError == \E i \in 1..Len(last.msgs) : last.msgs[i] \in ErrorMsgs

\* the next state of the chain
Succ(st) == IF st = STATE_REFERRER_DEALERSHIP THEN END ELSE st + 1

\* the photo was staged, validated and handed to the extractor
Extracted == last.h \in DocHandlers /\ last.ext = "text"

\* C1: when process_document returns a failure result at a document step,
\* the controller reports an error, the conversation stays in the state the
\* handler was invoked in and nothing is stored for that document type.
C1_ExtractionFailureKeepsStep ==
  (Extracted /\ last.text \in FailureTexts)
    => /\ SentError
       /\ state[last.u] = last.inv
       /\ last.res = "ret" => last.ret = last.inv
       /\ ~last.stored

\* C2: the record submitted at the end of a user's conversation is built only
\* from document maps that were stored by steps of that same user.
C2_RecordOnlyOwnDocuments ==
  last.submitted => last.srcOwners \subseteq {last.u}

\* C3: every handler of the chain returns the state it was invoked in or its
\* immediate successor (start returns the first state), so the conversation
\* state never skips a step and never moves backwards, and a log-card step
\* that stored its map goes on to STATE_REFERRER_NAME.
C3_ChainOrder ==
  /\ (last.h \notin {"none", "start", "cancel"})
       => /\ last.res = "ret" => last.ret \in {last.inv, Succ(last.inv)}
          /\ state[last.u] \in {last.inv, Succ(last.inv)}
  /\ (last.h = "start" /\ last.res = "ret") => last.ret = STATE_UPLOAD_ID
  /\ (last.h = "handle_log_card" /\ last.res = "ret" /\ last.ret # last.inv)
       => last.ret = STATE_REFERRER_NAME

C3_Witness ==
  /\ last.h = "handle_log_card"
  /\ last.inv = STATE_UPLOAD_LOG
  /\ last.stored
  /\ state[last.u] = STATE_REFERRER_NAME

\* C4: when a document handler is over, none of the files this invocation
\* wrote under temp_documents exists any more.
C4_NoTempFileLeft ==
  last.h \in DocHandlers => last.orphans = {}

AllAttemptsFail(outs) == \A i \in 1..MAX_RETRIES : outs[i] # "ok"
FirstOk(outs) ==
  IF AllAttemptsFail(outs) THEN 0
  ELSE CHOOSE i \in 1..MAX_RETRIES :
         outs[i] = "ok" /\ \A j \in 1..(i - 1) : outs[j] # "ok"

\* C5: if every attempt of download_with_retry fails, the call raises and no
\* temporary or permanent file written by its attempts is left.
C5_FailedDownloadLeavesNothing ==
  (last.h \in DocHandlers /\ AllAttemptsFail(last.dl.outs))
    => /\ last.dl.raised
       /\ last.dl.tempW = {}
       /\ last.dl.permW = {}

\* C6: if attempt k <= MAX_RETRIES is the first to succeed, download_with_retry
\* returns the permanent and the temporary path, both written, after exactly
\* k attempts; no call makes more than MAX_RETRIES attempts.
C6_SucceedsAtFirstGoodAttempt ==
  last.h \in DocHandlers
    => /\ last.dl.attempts <= MAX_RETRIES
       /\ FirstOk(last.dl.outs) > 0
            => /\ ~last.dl.raised
               /\ last.dl.attempts = FirstOk(last.dl.outs)
               /\ Len(last.dl.saved) = 3 /\ last.dl.saved \in last.dl.permW
               /\ Len(last.dl.temp) = 2 /\ last.dl.temp \in last.dl.tempW

C6_Witness ==
  /\ last.h \in DocHandlers
  /\ FirstOk(last.dl.outs) = MAX_RETRIES
  /\ ~last.dl.raised
  /\ last.dl.attempts = MAX_RETRIES

\* C7: download_with_retry makes a further attempt only after a transient
\* failure, lets a delay pass between two consecutive attempts, and raises
\* DownloadFailed once the attempts are used up.
C7_RetryPolicy ==
  last.h \in DocHandlers
    => /\ \A i \in 1..(last.dl.attempts - 1) : Transient(last.dl.outs[i])
       /\ last.dl.slept = last.dl.attempts - 1
       /\ (last.dl.raised /\ last.dl.attempts = MAX_RETRIES)
            => last.dl.err = "DownloadFailed"

ValidationFailed ==
  last.h \in DocHandlers /\ last.valid \notin {"na", "Image is valid"}

\* C8: a staged photo that fails validate_image makes the controller send
\* the validation error and stay in the same state, without calling the
\* extractor and without touching extracted_data, however often this
\* happens in a row.
C8_ValidationFailureStays ==
  ValidationFailed
    => /\ Sent("validation_error")
       /\ last.res = "ret" => last.ret = last.inv
       /\ state[last.u] = last.inv
       /\ last.ext = "none"
       /\ ~last.stored /\ ~last.changed

C8_Witness ==
  /\ ValidationFailed
  /\ last.valRun >= 2
  /\ last.res = "ret"

IdLabels == <<"Name", "Race", "Date of birth", "Sex">>
NoSpaces(l) == SelectSeq(l, LAMBDA t : t # SP)

\* the text has exactly the four identity lines, each "Label: value" with a
\* value that is no sentinel
FourFields(t) ==
  /\ Len(t) = Len(IdLabels)
  /\ \A i \in 1..Len(IdLabels) :
       /\ Len(NoSpaces(t[i])) = 3
       /\ NoSpaces(t[i])[1] = IdLabels[i]
       /\ NoSpaces(t[i])[2] = COLON
       /\ NoSpaces(t[i])[3] \notin {NOT_FOUND, NO_DATA, COLON}

FieldsOf(t) ==
  [k \in {<<IdLabels[i]>> : i \in 1..Len(IdLabels)} |->
     LET i == CHOOSE j \in 1..Len(IdLabels) : IdLabels[j] = k[1]
     IN <<NoSpaces(t[i])[3]>>]

IdentityCase ==
  /\ last.h = "handle_id_card"
  /\ last.ext = "text"
  /\ FourFields(last.text)

IdentityAdvanced ==
  /\ "id_card" \in DOMAIN extracted_data
  /\ extracted_data["id_card"] = FieldsOf(last.text)
  /\ Sent("next_license")
  /\ last.res = "ret" /\ last.ret = STATE_UPLOAD_LICENSE
  /\ state[last.u] = STATE_UPLOAD_LICENSE

\* C9 as stated: an identity photo that stages and validates and whose
\* extraction gives the four fields makes the controller store exactly these
\* pairs under 'id_card', prompt for the license and return AwaitLicense.
C9_IdentitySuccess == IdentityCase => IdentityAdvanced

\* C9 as amended: the same, provided the sends of the extracted text and of
\* the prompt for the next document do not raise; the four pairs are stored
\* under 'id_card' in either case.
C9_IdentitySuccessWhenSent ==
  IdentityCase
    => /\ "id_card" \in DOMAIN extracted_data
       /\ extracted_data["id_card"] = FieldsOf(last.text)
       /\ (last.failed \cap {"extracted", "next_license"} = {}) => IdentityAdvanced

C9_Witness ==
  /\ IdentityCase
  /\ last.failed = {}
  /\ state[last.u] = STATE_UPLOAD_LICENSE

\* C10: when the identity extraction runs into the timeout, the handler sends
\* the timeout message, the conversation stays in AwaitIdentity, nothing is
\* stored under 'id_card' by this step, and the temporary file the step
\* staged is gone when the handler is over.
C10_TimeoutKeepsIdentityStep ==
  (last.h = "handle_id_card" /\ last.ext = "timeout")
    => /\ Sent("error_timeout")
       /\ last.res = "ret" => last.ret = STATE_UPLOAD_ID
       /\ state[last.u] = STATE_UPLOAD_ID
       /\ ~last.stored /\ ~last.changed
       /\ last.dl.temp # NoPath
       /\ last.dl.temp \notin tempFiles

C10_Witness ==
  /\ last.h = "handle_id_card"
  /\ last.ext = "timeout"
  /\ last.res = "ret"
  /\ last.dl.attempts > 1

----------------------------------------------------------------------------
(* Submission and the end of the conversation                              *)

MapOrder == <<"id_card", "license", "log_card", "referrer_info">>
StoredMap(i) == DictGet(extracted_data, MapOrder[i], EmptyDict)

\* the latest map, in the fixed order, that has key k
LatestWith(k) ==
  CHOOSE i \in 1..Len(MapOrder) :
    /\ k \in DOMAIN StoredMap(i)
    /\ \A j \in (i + 1)..Len(MapOrder) : k \notin DOMAIN StoredMap(j)

MergedRecord ==
  [k \in UNION {DOMAIN StoredMap(i) : i \in 1..Len(MapOrder)} |->
     StoredMap(LatestWith(k))[k]]

\* C12: the record handed to create_policy_item is the merge of the four
\* stored maps in the order id_card, license, log_card, referrer_info, the
\* latest map winning on a shared key; it is determined by those maps, and
\* the submitting step changes extracted_data only by setting referrer_info.
C12_RecordIsOrderedMerge ==
  [][ last'.submitted =>
        /\ last'.record = MergedRecord'
        /\ "referrer_info" \in DOMAIN extracted_data'
        /\ extracted_data' =
             DictSet(extracted_data, "referrer_info",
                     extracted_data'["referrer_info"]) ]_vars

C12_Witness ==
  /\ last.submitted
  /\ \E i \in 1..Len(MapOrder), j \in 1..Len(MapOrder) :
       /\ i < j
       /\ \E k \in DOMAIN StoredMap(i) \cap DOMAIN StoredMap(j) :
            /\ StoredMap(i)[k] # StoredMap(j)[k]
            /\ k \in DOMAIN last.record

GatewayFailed ==
  last.h = "collect_referrer_dealership" /\ last.submitted /\ ~last.gw

\* C13: when create_policy_item reports failure after an accepted dealership
\* reply, the conversation ends, the user gets the save-error message and
\* not the completion message, and the submission is not made again.
C13_GatewayFailureEndsConversation ==
  GatewayFailed
    => /\ state[last.u] = END
       /\ Sent("save_error") /\ "save_error" \notin last.failed
       /\ ~Sent("completion")
       /\ last.subs[last.u] <= 1

ReferralHandlers ==
  {"collect_referrer_name", "collect_referrer_contact",
   "collect_referrer_dealership"}

\* the reply is empty or consists of white space only
BlankReply ==
  /\ last.h \in ReferralHandlers
  /\ \A i \in 1..Len(last.reply) : last.reply[i] = SP

EmptyError(h) ==
  CASE h = "collect_referrer_name"    -> "error_name_empty"
    [] h = "collect_referrer_contact" -> "error_contact_empty"
    [] OTHER                          -> "error_dealership_empty"

\* C14: an empty or white-space reply in a referral state keeps the
\* conversation in that state, the only message is the error message of the
\* field, nothing is stored in user_data or extracted_data, and no record is
\* built or submitted.
C14_BlankReplyStays ==
  BlankReply
    => /\ state[last.u] = last.inv
       /\ last.res = "ret" => last.ret = last.inv
       /\ last.msgs = <<EmptyError(last.h)>>
       /\ ~last.udChanged /\ ~last.changed
       /\ ~last.submitted /\ last.record = EmptyDict

C14_Witness ==
  /\ BlankReply
  /\ last.h = "collect_referrer_dealership"
  /\ last.reply = <<SP>>
  /\ last.res = "ret"

\* the dealership step got a reply that is not empty after strip()
DealershipAccepted ==
  /\ last.h = "collect_referrer_dealership"
  /\ ~BlankReply

\* C15: create_policy_item is invoked exactly once when the dealership step
\* accepts a reply, by no other step, and at most once in a conversation.
C15_SubmittedExactlyOnce ==
  /\ last.submitted <=> DealershipAccepted
  /\ \A u \in Users : last.subs[u] <= 1

\* the handler that ended the conversation of last.u
SessionEnded ==
  /\ last.h \in {"cancel", "collect_referrer_dealership"}
  /\ last.res = "ret" /\ last.ret = END

\* C16: when a conversation ends by completion or by cancel, extracted_data
\* holds no map stored by a step of that user any more.
C16_EndDestroysSessionData ==
  SessionEnded
    => \A k \in DOMAIN extracted_data \cap DOMAIN owner : owner[k] # last.u

\* C17: cancel, in whatever state it is invoked, sends the cancel message,
\* returns the terminal state and ends the conversation, without extraction
\* or submission.
C17_CancelEndsConversation ==
  last.h = "cancel"
    => /\ last.msgs = <<"cancel">>
       /\ last.res = "ret" /\ last.ret = END
       /\ state[last.u] = END
       /\ HandlerFor(state[last.u]) = "start"
       /\ last.ext = "none" /\ ~last.submitted

----------------------------------------------------------------------------
(* The model runtime                                                       *)

Running == {t \in threads : t.pc # "done"}

\* C11: when the identity extraction times out it is cancelled: once the
\* handler has returned no extraction it started is still running, and no
\* two extractions of one user run at the same time.
C11_TimeoutCancelsExtraction ==
  /\ \A t \in Running : t.tid = waiting.tid
  /\ \A t1 \in Running, t2 \in Running : t1.u = t2.u => t1 = t2

\* C18: over all extractions the model weights are loaded at most once and
\* the per-call cleanup never deletes the loaded model.
C18_ModelLoadedOnceAndKept ==
  /\ runtime.loads <= 1
  /\ runtime.deleted = 0

\* C19: the calls of ModelSingleton.get_instance() that return all return
\* the one instance, whose model was loaded once, by the first such call;
\* no later call loads again.
C19_SingletonIdempotent ==
  /\ Cardinality(singleton.returned) <= 1
  /\ singleton.loads <= 1
  /\ singleton.returned # {}
       => /\ singleton.returned = {singleton.instance}
          /\ singleton.loads = 1 /\ singleton.model

C19_Witness ==
  /\ singleton.calls >= 2
  /\ singleton.made = 1
  /\ singleton.returned # {}

\* C20: at no time are two generate calls in progress.
C20_GenerateSerialized ==
  Cardinality({t \in threads : t.pc = "generate"}) <= 1

----------------------------------------------------------------------------
(* Failures inside a step                                                  *)

\* get_processor raised: the prompt of the extractor variant is not set
PromptMissing ==
  /\ last.h \in {"handle_id_card", "handle_log_card"}
  /\ last.kind = "factory_fail"

\* C22: while the prompt of an extractor variant is not set, no step of that
\* variant is accepted: the identity (log-card) step stores no map and does
\* not advance.
C22_MissingPromptAcceptsNothing ==
  PromptMissing
    => /\ ~last.stored /\ ~last.changed
       /\ state[last.u] = last.inv

\* C23: no handler of TelegramController lets an exception escape: whatever
\* fails during a step, the handler returns a conversation state, the one it
\* was invoked in or the next one.
C23_NoExceptionEscapes ==
  last.h # "none"
    => /\ last.res = "ret"
       /\ last.ret \in {last.inv, Succ(last.inv), STATE_UPLOAD_ID}
            \/ (last.h = "cancel" /\ last.ret = END)

\* the model of the identity extractor could not be loaded, or generate raised
IdentityModelFailed ==
  /\ last.h = "handle_id_card"
  /\ last.kind \in {"load_fail", "gen_fail"}

\* C28: when the identity extractor cannot load its model or generate
\* raises, the extraction returns the fields read by OCR and no failure
\* result.
C28_IdentityFallsBackToOCR ==
  IdentityModelFailed
    => /\ last.text \notin FailureTexts
       /\ \A i \in 1..Len(IdLabels) :
            \E j \in 1..Len(last.text) :
              /\ NoSpaces(last.text[j]) # <<>>
              /\ NoSpaces(last.text[j])[1] = IdLabels[i]

----------------------------------------------------------------------------
(* The pure functions                                                      *)

FormatFns ==
  {"IDCardProcessor.format_text", "LicenseProcessor.format_text",
   "LogCardProcessor.format_text"}

\* line l is a 'Label: value' line of label lab
Carries(l, lab) == HasTok(l, COLON) /\ Strip(BeforeColon(l)) = <<lab>>

LabelSet(fn) ==
  IF fn \in FormatFns
  THEN {DeclaredLabels(fn)[n] : n \in 1..Len(DeclaredLabels(fn))}
  ELSE {"Name", "Race", "Vehicle No", "Make/Model"}

\* C24: for a raw text without any declared 'Label: value' line, format_text
\* of each extractor variant returns every declared field with the value
\* 'Not found'.
C24_UnparseableGivesNotFound ==
  ( /\ call.fn \in FormatFns
    /\ \A i \in 1..Len(call.arg), lab \in LabelSet(call.fn) :
         ~Carries(call.arg[i], lab) )
    => \A lab \in LabelSet(call.fn) :
         \E j \in 1..Len(call.out) :
           NoSpaces(call.out[j]) = <<lab, COLON, NOT_FOUND>>

\* the lines of the input that carry label lab
LinesWith(lab) == {i \in 1..Len(call.arg) : Carries(call.arg[i], lab)}

\* C25: when a label stands on more than one line of the raw text, the map
\* has the value of the first of these lines (license and log-card
\* format_text followed by the controller's parsing, and that parsing alone).
C25_FirstOccurrenceWins ==
  call.fn \in {"LicenseProcessor.format_text", "LogCardProcessor.format_text",
               "parse"}
    => \A lab \in LabelSet(call.fn) :
         Cardinality(LinesWith(lab)) >= 2
           => LET first == CHOOSE i \in LinesWith(lab) :
                             \A j \in LinesWith(lab) : i <= j
              IN /\ <<lab>> \in DOMAIN call.map
                 /\ call.map[<<lab>>] = Strip(AfterColon(call.arg[first]))

\* C26: a raw text that is exactly the variant's template, every label with
\* a value, comes back from format_text and the controller's parsing as a
\* map with every label and its value.
C26_TemplateRoundTrip ==
  ( /\ call.fn \in FormatFns
    /\ call.arg = Template(DeclaredLabels(call.fn)) )
    => \A lab \in LabelSet(call.fn) :
         /\ <<lab>> \in DOMAIN call.map
         /\ call.map[<<lab>>] = <<"val">>

\* C27: validate_image answers (False, reason) with a non-empty reason for
\* every file that cannot be opened and every image under 100 pixels in
\* width or height or under 1024 bytes, and (True, ...) for every other.
C27_ValidateImage ==
  call.fn = "validate_image"
    => IF \/ ~call.arg.readable
          \/ call.arg.w < MinDim \/ call.arg.h < MinDim
          \/ call.arg.bytes < MinBytes
       THEN ~call.out.ok /\ call.out.msg # ""
       ELSE call.out.ok

C27_Witness ==
  /\ call.fn = "validate_image"
  /\ call.arg = Photo(MinDim, MinDim - 1, MinBytes, TRUE)
  /\ ~call.out.ok

\* C29: IDCardProcessor.format_text returns the non-blank lines after the
\* first marker line, stripped and in order, and 'No data found' when the
\* text has no marker.
C29_StrictParsing ==
  call.fn = "IDCardProcessor.format_text"
    => LET m == MarkerLine(call.arg)
           after == [i \in 1..(Len(call.arg) - m) |-> Strip(call.arg[m + i])]
           kept == SelectSeq(after, LAMBDA l : l # <<>>)
       IN CASE m = 0       -> call.out = Lit(NO_DATA)
            [] kept = <<>> -> call.out \in {EmptyStr, Lit(NO_DATA)}
            [] OTHER       -> call.out = kept

----------------------------------------------------------------------------
(* Sessions side by side                                                   *)

\* a handler of another user than the one whose download is being retried
BotOtherSession ==
  \E v \in Users \ {bot.run.u} : BotStart(v) \/ BotBegin(v) \/ BotCancel(v)

\* C21: while the download of one session waits between two attempts, the
\* handlers of the other sessions can run.
C21_RetryDelayBlocksNobody ==
  bot.run.pc = "sleep" => ENABLED BotOtherSession

\* the handler of waiting.u runs process_document in place
InPlaceExtraction ==
  \E t \in threads :
    /\ t.tid = waiting.tid
    /\ t.doc \in {"license", "log_card"}
    /\ t.pc # "done"

\* a handler of another user than the one whose extraction is in progress
OtherSession ==
  \E v \in Users \ {waiting.u} : RuntimeStart(v) \/ BeginExtraction(v)

\* C30: while the license or log-card extraction of one session is in
\* progress, the handlers of the other sessions can run.
C30_ExtractionBlocksNobody ==
  InPlaceExtraction => ENABLED OtherSession

----------------------------------------------------------------------------
(* src/bot.py: downloads and temporary images                              *)

\* the retries of download_with_retry: only after a TimedOut or NetworkError,
\* and any other error is raised by the attempt it happens in
BotRetryRule ==
  /\ bot.run.pc = "sleep" => bot.run.err = "transient"
  /\ bot.run.pc = "failed" /\ bot.run.err = "transient"
       => bot.run.retry_count = BOT_MAX_RETRIES
  /\ bot.run.err = "other" => bot.run.pc = "failed"

\* C31 as stated: download_with_retry makes at most MAX_RETRIES attempts in
\* total for one photo, retries only on TimedOut/NetworkError and raises any
\* other error at once.
C31_AtMostMaxRetriesAttempts ==
  /\ bot.run.attempts <= BOT_MAX_RETRIES
  /\ BotRetryRule

\* C31: download_with_retry makes at most MAX_RETRIES + 1 attempts in total
\* for one photo (the first one and MAX_RETRIES retries), retries only on
\* TimedOut/NetworkError and raises any other error at once.
C31_AtMostMaxRetriesRetries ==
  /\ bot.run.attempts <= BOT_MAX_RETRIES + 1
  /\ bot.run.pc = "failed" /\ bot.run.err = "transient"
       => bot.run.attempts = BOT_MAX_RETRIES + 1
  /\ BotRetryRule

\* the download is given up after the last retry failed as the others did
C31_Witness ==
  /\ bot.run.pc = "failed"
  /\ bot.run.err = "transient"
  /\ bot.run.attempts = BOT_MAX_RETRIES + 1

\* C32: when a document handler of bot.py has returned, the image it
\* downloaded to temp_id_{user_id}.jpg does not exist any more.
C32_BotTempFileRemoved ==
  bot.run = NoRun => bot.files = {}

----------------------------------------------------------------------------
(* Concurrent callers of the singleton                                     *)

\* C37: whatever the interleaving of the threads that call get_instance(),
\* all of them receive the same instance and the model is loaded once.
C37_ConcurrentGetInstance ==
  /\ Cardinality(singleton.returned) <= 1
  /\ singleton.loads <= 1

----------------------------------------------------------------------------
(* src/model.py: the model's answer or the OCR text                        *)

\* the answer names the field f followed by a colon, in any case
NamesField(text, f) ==
  \E n \in 1..Len(text) :
    \E i \in 1..(Len(text[n]) - 1) :
      Lower(text[n][i]) = f /\ text[n][i + 1] = COLON

\* the model gave an answer that is not blank and names the four fields
AnswerComplete(img) ==
  /\ img.vlm.kind = "text"
  /\ \E n \in 1..Len(img.vlm.text) :
       \E i \in 1..Len(img.vlm.text[n]) : img.vlm.text[n][i] # SP
  /\ \A f \in VlmFields : NamesField(img.vlm.text, f)

----------------------------------------------------------------------------
(* What the merge keeps of the identity card                               *)

\* the fields of the stored identity map whose value was found
IdentityFound ==
  {k \in DOMAIN StoredMap(1) : StoredMap(1)[k] # <<NOT_FOUND>>}

\* C34: a value found on the identity card is not replaced in the submitted
\* record by the 'Not found' of a later document.
C34_FoundValueSurvives ==
  last.submitted
    => \A k \in IdentityFound : last.record[k] # <<NOT_FOUND>>

----------------------------------------------------------------------------
(* Steps that do not advance                                               *)

\* C35: a document handler that returns the state it was invoked in has
\* left extracted_data as it was.
C35_NoAdvanceNoChange ==
  /\ last.h \in DocHandlers
  /\ last.res = "ret"
  /\ last.ret = last.inv
  => ~last.changed

----------------------------------------------------------------------------
(* The keys a conversation has stored by each of its states                *)

\* the keys extracted_data holds by the time a conversation is in state st
KeysBy(st) ==
  {MapOrder[i] : i \in {j \in 1..(Len(MapOrder) - 1) : j <= st}}

\* C36: a conversation that awaits the license or is further on has stored
\* id_card, one that awaits the log card or is further on has also stored
\* license, one in a referral state has also stored log_card, and every
\* call of create_policy_item finds all four keys.
C36_KeysByState ==
  /\ \A u \in Users :
       state[u] # END => KeysBy(state[u]) \subseteq DOMAIN extracted_data
  /\ last.submitted
       => {MapOrder[i] : i \in 1..Len(MapOrder)} \subseteq DOMAIN extracted_data

\* a submission, made from the dealership state
C36_Witness ==
  /\ last.submitted
  /\ last.inv = STATE_REFERRER_DEALERSHIP
  /\ DictGet(extracted_data, "id_card", EmptyDict) # EmptyDict

----------------------------------------------------------------------------
(* Retained images                                                         *)

\* C38: a staging that succeeds returns a permanent path that no earlier
\* staging has written: no retained image is overwritten.
C38_PermanentPathsDistinct ==
  [][ /\ last' # last
      /\ last'.dl.attempts > 0
      /\ ~last'.dl.raised
      => last'.dl.saved \notin permFiles ]_vars

----------------------------------------------------------------------------
(* Progress                                                                *)

Done == state[Solo] = END /\ last.h = "collect_referrer_dealership"

\* a conversation that has been started reaches Done
C39_ReachesDone == (state[Solo] # END) ~> Done

\* C39: with a user who keeps replying and is never cancelled, and steps
\* that eventually succeed, a started conversation reaches Done, and it has
\* made exactly one submission attempt when it does.
C39_ProgressWithOneSubmission ==
  /\ (state[Solo] # END) ~> Done
  /\ [](Done => last.subs[Solo] = 1)

====
